---- MODULE Spec2Model ----
(***************************************************************************)
(* Rate-limited request layer of the Steam market scraper:                 *)
(*   core/rate_limiter.py  RateLimiter (sliding window, backoff, rotation) *)
(*   scrapers/steam.py     SteamAPIMarket._make_request_with_rate_limit,   *)
(*                         get_max_items, get_list_items                   *)
(* Time is the wall clock in whole seconds.  random.uniform draws are      *)
(* whole-second values inside the real interval the code draws from.       *)
(***************************************************************************)
EXTENDS Integers, Sequences, FiniteSets, TLC

VARIABLES
    now,                        \* time.time()
    max_requests,               \* RateLimiter.max_requests
    requests,                   \* RateLimiter.requests
    consecutive_failures,       \* RateLimiter.consecutive_failures
    current_user_agent_index,   \* RateLimiter.current_user_agent_index
    degraded_service,           \* RateLimiter.degraded_service
    last_429_time,              \* RateLimiter.last_429_time
    history,                    \* every record ever appended, never pruned
    last_op,                    \* the RateLimiter method called last
    last_ret,                   \* what that call returned
    calls,                      \* number of RateLimiter calls made by the client
    pc,                         \* where the SteamAPIMarket client stands
    kind,                       \* "probe" (get_max_items) or "page"
    attempt,                    \* _make_request_with_rate_limit: attempt
    result,                     \* what _make_request_with_rate_limit returned
    call_first,                 \* Len(history) when the executor call began
    state,                      \* crawl controller state
    start_arg,                  \* get_list_items: start
    total_items,                \* get_list_items: total_items
    current_start,              \* get_list_items: current_start
    all_items,                  \* get_list_items: all_items
    returned,                   \* value the last get_list_items call returned
    prev,                       \* state and return value of the call before
    sessions,                   \* get_list_items calls started
    gets,                       \* HTTP GETs of this get_list_items call
    horizon,                    \* the clock reading the model stops at
    budget,                     \* the number of calls the client makes
    config,                     \* core.config: the settings read, and how far
                                \* the start-up has come
    clients,                    \* the RateLimiter of each of two concurrent
                                \* SteamAPIMarket clients
    wire,                       \* the answers of the remote host to the GETs
                                \* the session's adapter has sent
    remote,                     \* the ways the remote host and the network
                                \* fail a GET during this run
    etl                         \* ETLManager: the items table and the last
                                \* insert_items call

limiter_vars == <<max_requests, requests, consecutive_failures,
                  current_user_agent_index, degraded_service, last_429_time>>
client_vars == <<last_op, last_ret, calls>>
executor_vars == <<pc, kind, attempt, result, call_first>>
crawl_vars == <<state, start_arg, total_items, current_start, all_items,
                returned, prev, sessions, gets>>
vars == <<now, max_requests, requests, consecutive_failures,
          current_user_agent_index, degraded_service, last_429_time,
          history, last_op, last_ret, calls, pc, kind, attempt, result,
          call_first, state, start_arg, total_items, current_start, all_items,
          returned, prev, sessions, gets, horizon, budget, config, clients,
          wire, remote, etl>>

-----------------------------------------------------------------------------
(* Bounds of the model *)
Epoch == 1              \* the clock's first reading
MaxTime == 80           \* the clock's last reading during crawls
MaxProbeTime == 216     \* the clock's last reading for get_max_items calls
MaxProbeCalls == 2      \* direct get_max_items calls on one client
MaxSessions == 2        \* get_list_items calls on one SteamAPIMarket client
MaxPages == 3           \* pages of the largest listing the remote reports
MaxCalls == 4           \* calls a direct client makes on a RateLimiter
MaxClientTime == 130    \* the clock's last reading for a direct client
MaxMaxRequests == 2     \* largest max_requests a direct client passes
MaxRecordCalls == 5     \* calls of a client that records and waits only
MaxLongTime == 230      \* the clock's last reading of one long crawl
MaxAttempt == 6         \* largest attempt number passed to _calculate_backoff
MaxBackoffTime == 301   \* the clock's last reading for backoff computations
MaxItemNames == 3       \* different hash_names an item can have
MaxCrawlItems == 3      \* items in the longest list get_list_items returns
MaxEtlCalls == 2        \* insert_items calls on one ETLManager
MaxPriceCalls == 1       \* get_price_overview calls on one client
MaxAdapterTime == 100   \* the clock's last reading when the adapter is modelled

(* core/config.py *)
STEAM_APP_ID == 730
MAX_REQUESTS_BEFORE_THROTTLE == 1
THROTTLE_WAIT_MIN_SECONDS == 20
BACKOFF_BASE_SECONDS == 30
JITTER_NUM == 3         \* JITTER_PERCENTAGE = 0.3 = JITTER_NUM / JITTER_DEN
JITTER_DEN == 10
BATCH_SIZE == 10
MAX_RETRIES == 3
NUM_USER_AGENTS == 6    \* len(USER_AGENTS)

(* core/rate_limiter.py *)
RECENT_429_SECONDS == 300
BACKOFF_CAP_SECONDS == 900
DEGRADED_THRESHOLD == 3

None == -1              \* Python's None where a number is expected

Min(a, b) == IF a <= b THEN a ELSE b
Max(a, b) == IF a >= b THEN a ELSE b

window_seconds == THROTTLE_WAIT_MIN_SECONDS
max_retries == MAX_RETRIES
backoff_base == BACKOFF_BASE_SECONDS

RequestRecord(t, success, response_time, status_code) ==
    [timestamp |-> t, success |-> success,
     response_time |-> response_time, status_code |-> status_code]

\* mutant: a record exactly window_seconds old is kept
clean_old_requests_keeps_edge(reqs, t) ==
    LET cutoff_time == t - window_seconds
        Keep(req) == req.timestamp >= cutoff_time
    IN  SelectSeq(reqs, Keep)

\* RateLimiter._clean_old_requests at clock reading t
clean_old_requests(reqs, t) ==
    LET cutoff_time == t - window_seconds
        Keep(req) == req.timestamp > cutoff_time
    IN  SelectSeq(reqs, Keep)

\* random.uniform's value as a share of its range: 0 and 1 are the ends of
\* uniform(0, b), -1 and 1 the ends of uniform(-b, b)
BackoffDraws == {0, 1}
WaitDraws == {-1, 1}

\* draw * JITTER_PERCENTAGE * x, truncated toward zero to whole seconds
JitterOf(x, draw) ==
    IF draw >= 0
    THEN (draw * JITTER_NUM * x) \div JITTER_DEN
    ELSE -(((-draw) * JITTER_NUM * x) \div JITTER_DEN)

\* mutant: the result is not clamped
calculate_backoff_no_cap(n, draw, l429, t) ==
    LET exponential_delay == backoff_base * (2 ^ (n - 1))
        jitter == JitterOf(exponential_delay, draw)
        backoff_time == exponential_delay + jitter
        recent == l429 # None /\ l429 # 0 /\ (t - l429) < RECENT_429_SECONDS
        final == IF recent THEN backoff_time * 2 ELSE backoff_time
    IN  final

\* mutant: the exponent of the method's docstring, 2^attempt
calculate_backoff_docstring(n, draw, l429, t) ==
    LET exponential_delay == backoff_base * (2 ^ n)
        jitter == JitterOf(exponential_delay, draw)
        backoff_time == exponential_delay + jitter
        recent == l429 # None /\ l429 # 0 /\ (t - l429) < RECENT_429_SECONDS
        final == IF recent THEN backoff_time * 2 ELSE backoff_time
    IN  Min(final, BACKOFF_CAP_SECONDS)

\* mutant: a recent 429 is ignored
calculate_backoff_no_double(n, draw, l429, t) ==
    LET exponential_delay == backoff_base * (2 ^ (n - 1))
        jitter == JitterOf(exponential_delay, draw)
        backoff_time == exponential_delay + jitter
    IN  Min(backoff_time, BACKOFF_CAP_SECONDS)

\* RateLimiter._calculate_backoff at clock reading t
calculate_backoff(n, draw, l429, t) ==
    LET exponential_delay == backoff_base * (2 ^ (n - 1))
        jitter == JitterOf(exponential_delay, draw)
        backoff_time == exponential_delay + jitter
        recent == l429 # None /\ l429 # 0 /\ (t - l429) < RECENT_429_SECONDS
        final == IF recent THEN backoff_time * 2 ELSE backoff_time
    IN  Min(final, BACKOFF_CAP_SECONDS)

\* RateLimiter._add_jitter_to_wait
add_jitter_to_wait(base_wait, draw) ==
    LET jitter == JitterOf(base_wait, draw)
    IN  Max(base_wait + jitter, 1)

OldestTimestamp(reqs) ==
    CHOOSE t \in {reqs[i].timestamp : i \in 1..Len(reqs)} :
        \A i \in 1..Len(reqs) : t <= reqs[i].timestamp

\* The time RateLimiter.wait_if_needed sleeps (0: it does not sleep)
wait_time(reqs, cf, l429, t, jdraw, bdraw) ==
    LET cleaned == clean_old_requests(reqs, t)
    IN  IF Len(cleaned) >= max_requests
        THEN LET base == (OldestTimestamp(cleaned) + window_seconds) - t
                 jittered == add_jitter_to_wait(base, jdraw)
             IN  IF cf > 0
                 THEN Max(jittered, calculate_backoff(cf, bdraw, l429, t))
                 ELSE jittered
        ELSE 0

\* mutant: the ledger is not pruned again after the sleep
wait_if_needed_no_reclean(jdraw, bdraw) ==
    LET cleaned == clean_old_requests(requests, now)
        w == wait_time(requests, consecutive_failures, last_429_time, now,
                       jdraw, bdraw)
    IN  IF Len(cleaned) >= max_requests
        THEN /\ degraded_service' =
                    IF consecutive_failures >= DEGRADED_THRESHOLD
                    THEN TRUE ELSE degraded_service
             /\ now' = IF w > 0 THEN now + w ELSE now
             /\ requests' = cleaned
        ELSE /\ requests' = cleaned
             /\ UNCHANGED <<now, degraded_service>>

\* RateLimiter.wait_if_needed: prune, and when the window is full sleep and
\* prune again
wait_if_needed(jdraw, bdraw) ==
    LET cleaned == clean_old_requests(requests, now)
        w == wait_time(requests, consecutive_failures, last_429_time, now,
                       jdraw, bdraw)
    IN  IF Len(cleaned) >= max_requests
        THEN /\ degraded_service' =
                    IF consecutive_failures >= DEGRADED_THRESHOLD
                    THEN TRUE ELSE degraded_service
             /\ now' = IF w > 0 THEN now + w ELSE now
             /\ requests' = IF w > 0
                            THEN clean_old_requests(cleaned, now + w)
                            ELSE cleaned
        ELSE /\ requests' = cleaned
             /\ UNCHANGED <<now, degraded_service>>

\* mutant: a success resets the streak and leaves the degradation flag
record_request_keeps_degraded(t, success, response_time, status_code) ==
    /\ requests' = Append(requests,
                          RequestRecord(t, success, response_time, status_code))
    /\ history' = Append(history,
                         RequestRecord(t, success, response_time, status_code))
    /\ IF success
       THEN /\ consecutive_failures' = 0
            /\ UNCHANGED <<degraded_service, last_429_time>>
       ELSE /\ consecutive_failures' = consecutive_failures + 1
            /\ last_429_time' = IF status_code = 429 THEN t ELSE last_429_time
            /\ UNCHANGED degraded_service

\* mutant: a successful record leaves the failure streak as it was
record_request_no_reset(t, success, response_time, status_code) ==
    /\ requests' = Append(requests,
                          RequestRecord(t, success, response_time, status_code))
    /\ history' = Append(history,
                         RequestRecord(t, success, response_time, status_code))
    /\ IF success
       THEN /\ degraded_service' = FALSE
            /\ UNCHANGED <<consecutive_failures, last_429_time>>
       ELSE /\ consecutive_failures' = consecutive_failures + 1
            /\ last_429_time' = IF status_code = 429 THEN t ELSE last_429_time
            /\ UNCHANGED degraded_service

\* mutant: a 429 is recorded like any other failure
record_request_no_429(t, success, response_time, status_code) ==
    /\ requests' = Append(requests,
                          RequestRecord(t, success, response_time, status_code))
    /\ history' = Append(history,
                         RequestRecord(t, success, response_time, status_code))
    /\ IF success
       THEN /\ consecutive_failures' = 0
            /\ degraded_service' = FALSE
            /\ UNCHANGED last_429_time
       ELSE /\ consecutive_failures' = consecutive_failures + 1
            /\ UNCHANGED <<last_429_time, degraded_service>>

\* mutant: a success forgets the last 429
record_request_clears_429(t, success, response_time, status_code) ==
    /\ requests' = Append(requests,
                          RequestRecord(t, success, response_time, status_code))
    /\ history' = Append(history,
                         RequestRecord(t, success, response_time, status_code))
    /\ IF success
       THEN /\ consecutive_failures' = 0
            /\ degraded_service' = FALSE
            /\ last_429_time' = None
       ELSE /\ consecutive_failures' = consecutive_failures + 1
            /\ last_429_time' = IF status_code = 429 THEN t ELSE last_429_time
            /\ UNCHANGED degraded_service

\* RateLimiter.record_request at clock reading t
record_request(t, success, response_time, status_code) ==
    /\ requests' = Append(requests,
                          RequestRecord(t, success, response_time, status_code))
    /\ history' = Append(history,
                         RequestRecord(t, success, response_time, status_code))
    /\ IF success
       THEN /\ consecutive_failures' = 0
            /\ degraded_service' = FALSE
            /\ UNCHANGED last_429_time
       ELSE /\ consecutive_failures' = consecutive_failures + 1
            /\ last_429_time' = IF status_code = 429 THEN t ELSE last_429_time
            /\ UNCHANGED degraded_service

\* mutant: the rotation steps over every other User-Agent
next_user_agent_index_skip(i) == (i + 2) % NUM_USER_AGENTS

\* RateLimiter.get_next_user_agent
next_user_agent_index(i) == (i + 1) % NUM_USER_AGENTS

-----------------------------------------------------------------------------
(* The remote's answers and the values a caller passes *)
TransientStatuses == {500, 502, 503, 504}       \* steam.py line 228
RecordStatuses == {200, 429, 503, None}
TickSteps == {window_seconds - 1, window_seconds}
NoResponse == [status_code |-> None, json_ok |-> FALSE, total_count |-> 0,
               results |-> <<>>]

\* core/config.py with nothing set in the environment, Config() built and
\* the client's RateLimiter constructed
DefaultConfig ==
    [status |-> "limiter_built",
     app_id |-> STEAM_APP_ID,
     max_requests |-> MAX_REQUESTS_BEFORE_THROTTLE,
     wait_seconds |-> THROTTLE_WAIT_MIN_SECONDS,
     batch_size |-> BATCH_SIZE]

\* no second thread: the one client of the other variables runs alone
NoClients == <<>>

\* no remote host: the RateLimiter is called directly
NoRemote == {}

\* no ETLManager: the client is used directly
NoEtl == <<>>

InitLimiter ==
    /\ now = Epoch
    /\ requests = <<>>
    /\ consecutive_failures = 0
    /\ current_user_agent_index = 0
    /\ degraded_service = FALSE
    /\ last_429_time = None
    /\ history = <<>>
    /\ last_op = "init"
    /\ last_ret = None
    /\ calls = 0

InitClient ==
    /\ pc = "idle"
    /\ kind = "probe"
    /\ attempt = 0
    /\ result = NoResponse
    /\ call_first = 0
    /\ state = "START"
    /\ start_arg = 0
    /\ total_items = 0
    /\ current_start = 0
    /\ all_items = <<>>
    /\ returned = <<>>
    /\ prev = [state |-> "START", returned |-> <<>>]
    /\ sessions = 0
    /\ gets = <<>>

-----------------------------------------------------------------------------
(* A client that calls the RateLimiter's methods directly *)

\* RateLimiter(max_requests=n): a limiter built by a direct caller
LimiterInit ==
    /\ InitLimiter
    /\ InitClient
    /\ max_requests \in 1..MaxMaxRequests
    /\ horizon = MaxClientTime
    /\ budget = MaxCalls
    /\ config = DefaultConfig
    /\ clients = NoClients
    /\ wire = <<>>
    /\ remote = NoRemote
    /\ etl = NoEtl

Called(name, value) ==
    /\ calls < budget
    /\ calls' = calls + 1
    /\ last_op' = name
    /\ last_ret' = value

\* time passes between two calls
Tick ==
    /\ \E d \in TickSteps :
          /\ now + d <= horizon
          /\ now' = now + d
    /\ Called("tick", None)
    /\ UNCHANGED <<horizon, budget, config, clients, wire, remote, etl>>
    /\ UNCHANGED <<limiter_vars, history, executor_vars, crawl_vars>>

CallRecordRequest ==
    /\ \E success \in BOOLEAN, status_code \in RecordStatuses :
          record_request(now, success, 0, status_code)
    /\ Called("record_request", None)
    /\ UNCHANGED <<horizon, budget, config, clients, wire, remote, etl>>
    /\ UNCHANGED <<now, max_requests, current_user_agent_index,
                   executor_vars, crawl_vars>>

\* RateLimiter.can_make_request
CallCanMakeRequest ==
    /\ requests' = clean_old_requests(requests, now)
    /\ Called("can_make_request", Len(requests') < max_requests)
    /\ UNCHANGED <<horizon, budget, config, clients, wire, remote, etl>>
    /\ UNCHANGED <<now, max_requests, consecutive_failures,
                   current_user_agent_index, degraded_service, last_429_time,
                   history, executor_vars, crawl_vars>>

CallWaitIfNeeded ==
    /\ \E jdraw \in WaitDraws, bdraw \in BackoffDraws :
          wait_if_needed(jdraw, bdraw)
    /\ now' <= horizon
    /\ Called("wait_if_needed", now' - now)
    /\ UNCHANGED <<horizon, budget, config, clients, wire, remote, etl>>
    /\ UNCHANGED <<max_requests, consecutive_failures,
                   current_user_agent_index, last_429_time, history,
                   executor_vars, crawl_vars>>

CallCalculateBackoff ==
    /\ \E n \in 1..(max_retries + 1), draw \in BackoffDraws :
          Called("_calculate_backoff",
                 <<n, draw, calculate_backoff(n, draw, last_429_time, now)>>)
    /\ UNCHANGED <<horizon, budget, config, clients, wire, remote, etl>>
    /\ UNCHANGED <<now, limiter_vars, history, executor_vars, crawl_vars>>

CallGetNextUserAgent ==
    /\ current_user_agent_index' =
           next_user_agent_index(current_user_agent_index)
    /\ Called("get_next_user_agent", current_user_agent_index')
    /\ UNCHANGED <<horizon, budget, config, clients, wire, remote, etl>>
    /\ UNCHANGED <<now, max_requests, requests, consecutive_failures,
                   degraded_service, last_429_time, history, executor_vars,
                   crawl_vars>>

\* RateLimiter.get_status: prunes, then reads
get_status ==
    /\ requests' = clean_old_requests(requests, now)
    /\ UNCHANGED <<max_requests, consecutive_failures,
                   current_user_agent_index, degraded_service, last_429_time>>

CallGetStatus ==
    /\ get_status
    /\ Called("get_status",
              [requests_in_window |-> Len(requests'),
               consecutive_failures |-> consecutive_failures,
               can_make_request |-> Len(requests') < max_requests,
               degraded_service |-> degraded_service,
               last_429_time |-> last_429_time])
    /\ UNCHANGED <<horizon, budget, config, clients, wire, remote, etl>>
    /\ UNCHANGED <<now, history, executor_vars, crawl_vars>>

LimiterNext ==
    \/ Tick
    \/ CallRecordRequest
    \/ CallCanMakeRequest
    \/ CallWaitIfNeeded
    \/ CallCalculateBackoff
    \/ CallGetNextUserAgent
    \/ CallGetStatus

LimiterSpec == LimiterInit /\ [][LimiterNext]_vars

-----------------------------------------------------------------------------
(* _calculate_backoff over its whole domain: wait_if_needed passes
   consecutive_failures, which no retry bound limits, and the 429 doubling
   lasts RECENT_429_SECONDS *)

\* RateLimiter() with the defaults of core/config.py
BackoffInit ==
    /\ InitLimiter
    /\ InitClient
    /\ max_requests = MAX_REQUESTS_BEFORE_THROTTLE
    /\ horizon = MaxBackoffTime
    /\ budget = MaxCalls
    /\ config = DefaultConfig
    /\ clients = NoClients
    /\ wire = <<>>
    /\ remote = NoRemote
    /\ etl = NoEtl

\* time passes: one second, or all but one second of the doubling period
ElapseSteps == {1, RECENT_429_SECONDS - 1}

Elapse ==
    /\ \E d \in ElapseSteps :
          /\ now + d <= horizon
          /\ now' = now + d
    /\ Called("elapse", None)
    /\ UNCHANGED <<horizon, budget, config, clients, wire, remote, etl>>
    /\ UNCHANGED <<limiter_vars, history, executor_vars, crawl_vars>>

CallCalculateBackoffAny ==
    /\ \E n \in 1..MaxAttempt, draw \in BackoffDraws :
          Called("_calculate_backoff",
                 <<n, draw, calculate_backoff(n, draw, last_429_time, now)>>)
    /\ UNCHANGED <<horizon, budget, config, clients, wire, remote, etl>>
    /\ UNCHANGED <<now, limiter_vars, history, executor_vars, crawl_vars>>

BackoffNext ==
    \/ Elapse
    \/ CallRecordRequest
    \/ CallCalculateBackoffAny

BackoffSpec == BackoffInit /\ [][BackoffNext]_vars

-----------------------------------------------------------------------------
(* A client that only records outcomes and passes the gate, as the executor
   does, on a RateLimiter with the defaults of core/config.py *)

RecordInit ==
    /\ InitLimiter
    /\ InitClient
    /\ max_requests = MAX_REQUESTS_BEFORE_THROTTLE
    /\ horizon = MaxClientTime
    /\ budget = MaxRecordCalls
    /\ config = DefaultConfig
    /\ clients = NoClients
    /\ wire = <<>>
    /\ remote = NoRemote
    /\ etl = NoEtl

RecordNext ==
    \/ CallRecordRequest
    \/ CallWaitIfNeeded

RecordSpec == RecordInit /\ [][RecordNext]_vars

-----------------------------------------------------------------------------
(* SteamAPIMarket: the executor and the crawl controller *)

Response(status_code, json_ok, total_count, results) ==
    [status_code |-> status_code, json_ok |-> json_ok,
     total_count |-> total_count, results |-> results]

\* What session.get can give the executor: a response, or NoResponse for a
\* raised requests.exceptions.RequestException
TotalCounts == {0, BATCH_SIZE * (MaxPages - 1), BATCH_SIZE * MaxPages - 5}
PageResults == {<<>>, <<1>>, <<2, 1>>}
ErrorStatuses == {429, 503, 404}
ResponseTimes == {1}
Starts == {0}
OffsetStarts == {i * BATCH_SIZE : i \in 0..MaxPages}

\* every way a GET fails: an error status, a raised exception, a 200 whose
\* body does not decode
FailureAnswers ==
    {Response(s, FALSE, 0, <<>>) : s \in ErrorStatuses}
    \cup {NoResponse, Response(200, FALSE, 0, <<>>)}

\* an overloaded remote host: its failures are 429 and 503
OverloadAnswers == {Response(s, FALSE, 0, <<>>) : s \in {429, 503}}

Answers(k) ==
    remote
    \cup (IF k = "probe"
          THEN {Response(200, TRUE, t, <<>>) : t \in TotalCounts}
          ELSE {Response(200, TRUE, 0, r) : r \in PageResults})

\* requests.Response.__bool__ is Response.ok; None is falsy
Truthy(resp) == resp.status_code # None /\ resp.status_code < 400

\* SteamAPIMarket.__init__: RateLimiter() with the configured values
Init ==
    /\ InitLimiter
    /\ InitClient
    /\ max_requests = MAX_REQUESTS_BEFORE_THROTTLE
    /\ horizon = MaxTime
    /\ budget = MaxSessions
    /\ config = DefaultConfig
    /\ clients = NoClients
    /\ wire = <<>>
    /\ remote = FailureAnswers
    /\ etl = NoEtl

\* The executor is entered: attempt = 0
BeginExecute(k) ==
    /\ kind' = k
    /\ attempt' = 0
    /\ call_first' = Len(history)
    /\ pc' = "gate"

\* get_list_items up to the call of get_max_items, its start argument taken
\* from S
StartCrawlFrom(S) ==
    /\ pc = "idle"
    /\ sessions < budget
    /\ \E start \in S : start_arg' = start
    /\ sessions' = sessions + 1
    /\ prev' = IF sessions > 0
               THEN [state |-> state, returned |-> returned]
               ELSE prev
    /\ all_items' = <<>>
    /\ total_items' = 0
    /\ current_start' = 0
    /\ gets' = <<>>
    /\ state' = "FETCHING_TOTAL"
    /\ BeginExecute("probe")
    /\ UNCHANGED <<horizon, budget, config, clients, wire, remote, etl>>
    /\ UNCHANGED <<now, limiter_vars, history, client_vars, result, returned>>

\* get_list_items() with the default start
StartCrawl == StartCrawlFrom(Starts)

\* get_list_items(start) with a start at, below and above the listing's end
StartCrawlAt == StartCrawlFrom(OffsetStarts)

\* time passes between two get_list_items calls
Idle ==
    /\ pc = "idle"
    /\ sessions > 0
    /\ sessions < budget
    /\ now + window_seconds <= horizon
    /\ now' = now + window_seconds
    /\ UNCHANGED <<horizon, budget, config, clients, wire, remote, etl>>
    /\ UNCHANGED <<limiter_vars, history, client_vars, executor_vars,
                   crawl_vars>>

\* mutant: the loop stops one attempt early
retries_remain_one_less(a) == a < max_retries

\* the loop test of _make_request_with_rate_limit (lines 195 and 249)
retries_remain(a) == a <= max_retries

\* mutant: a full window makes the executor give up instead of waiting
Gate_rejects ==
    /\ pc = "gate"
    /\ retries_remain(attempt)
    /\ IF Len(clean_old_requests(requests, now)) >= max_requests
       THEN /\ requests' = clean_old_requests(requests, now)
            /\ result' = NoResponse
            /\ pc' = "ret"
            /\ UNCHANGED <<now, degraded_service>>
       ELSE /\ \E jdraw \in WaitDraws, bdraw \in BackoffDraws :
                  wait_if_needed(jdraw, bdraw)
            /\ pc' = "headers"
            /\ UNCHANGED result
    /\ now' <= horizon
    /\ UNCHANGED <<horizon, budget, config, clients, wire, remote, etl>>
    /\ UNCHANGED <<max_requests, consecutive_failures,
                   current_user_agent_index, last_429_time, history,
                   client_vars, kind, attempt, call_first, crawl_vars>>

\* line 198: self.rate_limiter.wait_if_needed()
Gate ==
    /\ pc = "gate"
    /\ retries_remain(attempt)
    /\ \E jdraw \in WaitDraws, bdraw \in BackoffDraws :
          wait_if_needed(jdraw, bdraw)
    /\ now' <= horizon
    /\ pc' = "headers"
    /\ UNCHANGED <<horizon, budget, config, clients, wire, remote, etl>>
    /\ UNCHANGED <<max_requests, consecutive_failures,
                   current_user_agent_index, last_429_time, history,
                   client_vars, kind, attempt, result, call_first, crawl_vars>>

\* lines 201-202: get_realistic_headers, session.headers.update
Headers ==
    /\ pc = "headers"
    /\ current_user_agent_index' =
           next_user_agent_index(current_user_agent_index)
    /\ pc' = "get"
    /\ UNCHANGED <<horizon, budget, config, clients, wire, remote, etl>>
    /\ UNCHANGED <<now, max_requests, requests, consecutive_failures,
                   degraded_service, last_429_time, history, client_vars,
                   kind, attempt, result, call_first, crawl_vars>>

\* mutant: a 429 is given up on like any unexpected status
classify_429_terminal(resp) ==
    IF resp.status_code = None THEN "retry"
    ELSE IF resp.status_code = 200 THEN "return"
    ELSE IF resp.status_code \in TransientStatuses THEN "retry"
    ELSE "fail"

\* mutant: every status but 200 is retried
classify_retry_all(resp) ==
    IF resp.status_code = 200 THEN "return" ELSE "retry"

\* lines 213-246: what the executor does with the outcome of session.get
classify(resp) ==
    IF resp.status_code = None THEN "retry"
    ELSE IF resp.status_code = 200 THEN "return"
    ELSE IF resp.status_code = 429 THEN "retry"
    ELSE IF resp.status_code \in TransientStatuses THEN "retry"
    ELSE "fail"

\* lines 208-246: session.get, then record_request by status
HttpGet ==
    /\ pc = "get"
    /\ \E elapsed \in ResponseTimes, resp \in Answers(kind) :
          /\ now + elapsed <= horizon
          /\ now' = now + elapsed
          /\ gets' = Append(gets,
                 [kind |-> kind,
                  start |-> IF kind = "probe" THEN 0 ELSE current_start,
                  user_agent |-> current_user_agent_index,
                  response |-> resp])
          /\ record_request(now', resp.status_code = 200,
                            IF resp.status_code = None THEN None ELSE elapsed,
                            resp.status_code)
          /\ result' = IF classify(resp) = "return" THEN resp ELSE NoResponse
          /\ pc' = IF classify(resp) = "retry" THEN "retry" ELSE "ret"
    /\ UNCHANGED <<horizon, budget, config, clients, wire, remote, etl>>
    /\ UNCHANGED <<max_requests, current_user_agent_index, client_vars, kind,
                   attempt, call_first, state, start_arg, total_items,
                   current_start, all_items, returned, prev, sessions>>

\* mutant: a failed attempt is followed by the next one at once
Retry_no_sleep ==
    /\ pc = "retry"
    /\ attempt' = attempt + 1
    /\ IF retries_remain(attempt')
       THEN /\ pc' = "gate"
            /\ UNCHANGED <<now, result>>
       ELSE /\ result' = NoResponse
            /\ pc' = "ret"
            /\ UNCHANGED now
    /\ UNCHANGED <<horizon, budget, config, clients, wire, remote, etl>>
    /\ UNCHANGED <<limiter_vars, history, client_vars, kind, call_first,
                   crawl_vars>>

\* mutant: the attempt counter is not advanced after a failed attempt
Retry_no_increment ==
    /\ pc = "retry"
    /\ attempt' = attempt
    /\ IF retries_remain(attempt')
       THEN /\ \E draw \in BackoffDraws :
                  now' = now + calculate_backoff(attempt' + 1, draw,
                                                 last_429_time, now)
            /\ now' <= horizon
            /\ pc' = "gate"
            /\ UNCHANGED result
       ELSE /\ result' = NoResponse
            /\ pc' = "ret"
            /\ UNCHANGED now
    /\ UNCHANGED <<horizon, budget, config, clients, wire, remote, etl>>
    /\ UNCHANGED <<limiter_vars, history, client_vars, kind, call_first,
                   crawl_vars>>

\* lines 248-255: attempt += 1, then the backoff sleep or the loop's end
Retry ==
    /\ pc = "retry"
    /\ attempt' = attempt + 1
    /\ IF retries_remain(attempt')
       THEN /\ \E draw \in BackoffDraws :
                  now' = now + calculate_backoff(attempt', draw,
                                                 last_429_time, now)
            /\ now' <= horizon
            /\ pc' = "gate"
            /\ UNCHANGED result
       ELSE /\ result' = NoResponse
            /\ pc' = "ret"
            /\ UNCHANGED now
    /\ UNCHANGED <<horizon, budget, config, clients, wire, remote, etl>>
    /\ UNCHANGED <<limiter_vars, history, client_vars, kind, call_first,
                   crawl_vars>>

\* mutant: a crawl that stops on a failure hands back nothing
Finish_discard(final_state, items) ==
    /\ get_status
    /\ state' = final_state
    /\ returned' = IF final_state = "ABORTED" THEN <<>> ELSE items
    /\ pc' = "idle"
    /\ UNCHANGED <<kind, attempt, call_first>>

\* get_list_items lines 325-332: the final get_status and the return
Finish(final_state, items) ==
    /\ get_status
    /\ state' = final_state
    /\ returned' = items
    /\ pc' = "idle"
    /\ UNCHANGED <<kind, attempt, call_first>>

\* mutant: a failed probe is taken for a listing of one batch
max_items_default(resp) ==
    IF ~Truthy(resp) THEN BATCH_SIZE
    ELSE IF ~resp.json_ok THEN BATCH_SIZE
    ELSE resp.total_count

\* get_max_items lines 170-181
max_items(resp) ==
    IF ~Truthy(resp) THEN 0
    ELSE IF ~resp.json_ok THEN 0
    ELSE resp.total_count

\* mutant: the loop runs once more when the offset equals the total
more_pages_inclusive(cur, total) == cur <= total

\* the while test of get_list_items, line 279
more_pages(cur, total) == cur < total

\* mutant: the crawl begins at offset 0 whatever start the caller gave
ProbeReturn_from_zero ==
    /\ pc = "ret"
    /\ kind = "probe"
    /\ state = "FETCHING_TOTAL"
    /\ total_items' = max_items(result)
    /\ IF total_items' = 0
       THEN /\ state' = "ABORTED"
            /\ returned' = <<>>
            /\ pc' = "idle"
            /\ UNCHANGED <<limiter_vars, kind, attempt, call_first,
                           current_start>>
       ELSE /\ current_start' = 0
            /\ IF more_pages(current_start', total_items')
               THEN /\ state' = "PAGING"
                    /\ BeginExecute("page")
                    /\ UNCHANGED <<limiter_vars, returned>>
               ELSE Finish("DONE", all_items)
    /\ UNCHANGED <<horizon, budget, config, clients, wire, remote, etl>>
    /\ UNCHANGED <<now, history, client_vars, result, start_arg, all_items,
                   prev, sessions, gets>>

\* get_max_items returns; get_list_items lines 271-279
ProbeReturn ==
    /\ pc = "ret"
    /\ kind = "probe"
    /\ state = "FETCHING_TOTAL"
    /\ total_items' = max_items(result)
    /\ IF total_items' = 0
       THEN /\ state' = "ABORTED"
            /\ returned' = <<>>
            /\ pc' = "idle"
            /\ UNCHANGED <<limiter_vars, kind, attempt, call_first,
                           current_start>>
       ELSE /\ current_start' = start_arg
            /\ IF more_pages(current_start', total_items')
               THEN /\ state' = "PAGING"
                    /\ BeginExecute("page")
                    /\ UNCHANGED <<limiter_vars, returned>>
               ELSE Finish("DONE", all_items)
    /\ UNCHANGED <<horizon, budget, config, clients, wire, remote, etl>>
    /\ UNCHANGED <<now, history, client_vars, result, start_arg, all_items,
                   prev, sessions, gets>>

\* mutant: the cursor is not advanced after a page was added to the result
PageReturn_no_advance ==
    /\ pc = "ret"
    /\ kind = "page"
    /\ IF ~Truthy(result) \/ ~result.json_ok
       THEN /\ Finish("ABORTED", all_items)
            /\ UNCHANGED <<all_items, current_start>>
       ELSE IF result.results = <<>>
       THEN /\ Finish("DONE", all_items)
            /\ UNCHANGED <<all_items, current_start>>
       ELSE /\ all_items' = all_items \o result.results
            /\ current_start' = current_start
            /\ IF more_pages(current_start', total_items)
               THEN /\ state' = "PAGING"
                    /\ BeginExecute("page")
                    /\ IF current_start' % (BATCH_SIZE * 5) = 0
                       THEN get_status
                       ELSE UNCHANGED limiter_vars
                    /\ UNCHANGED returned
               ELSE Finish("DONE", all_items')
    /\ UNCHANGED <<horizon, budget, config, clients, wire, remote, etl>>
    /\ UNCHANGED <<now, history, client_vars, result, start_arg, total_items,
                   prev, sessions, gets>>

\* mutant: an empty page is skipped and the loop goes on to the next offset
PageReturn_skip_empty ==
    /\ pc = "ret"
    /\ kind = "page"
    /\ IF ~Truthy(result) \/ ~result.json_ok
       THEN /\ Finish("ABORTED", all_items)
            /\ UNCHANGED <<all_items, current_start>>
       ELSE /\ all_items' = all_items \o result.results
            /\ current_start' = current_start + BATCH_SIZE
            /\ IF more_pages(current_start', total_items)
               THEN /\ state' = "PAGING"
                    /\ BeginExecute("page")
                    /\ IF current_start' % (BATCH_SIZE * 5) = 0
                       THEN get_status
                       ELSE UNCHANGED limiter_vars
                    /\ UNCHANGED returned
               ELSE Finish("DONE", all_items')
    /\ UNCHANGED <<horizon, budget, config, clients, wire, remote, etl>>
    /\ UNCHANGED <<now, history, client_vars, result, start_arg, total_items,
                   prev, sessions, gets>>

\* mutant: a page the executor failed on is skipped and the next one asked for
PageReturn_skip_failed ==
    /\ pc = "ret"
    /\ kind = "page"
    /\ IF ~Truthy(result)
       THEN /\ current_start' = current_start + BATCH_SIZE
            /\ IF more_pages(current_start', total_items)
               THEN /\ state' = "PAGING"
                    /\ BeginExecute("page")
                    /\ UNCHANGED <<limiter_vars, returned, all_items>>
               ELSE /\ Finish("ABORTED", all_items)
                    /\ UNCHANGED all_items
       ELSE IF ~result.json_ok
       THEN /\ Finish("ABORTED", all_items)
            /\ UNCHANGED <<all_items, current_start>>
       ELSE IF result.results = <<>>
       THEN /\ Finish("DONE", all_items)
            /\ UNCHANGED <<all_items, current_start>>
       ELSE /\ all_items' = all_items \o result.results
            /\ current_start' = current_start + BATCH_SIZE
            /\ IF more_pages(current_start', total_items)
               THEN /\ state' = "PAGING"
                    /\ BeginExecute("page")
                    /\ IF current_start' % (BATCH_SIZE * 5) = 0
                       THEN get_status
                       ELSE UNCHANGED limiter_vars
                    /\ UNCHANGED returned
               ELSE Finish("DONE", all_items')
    /\ UNCHANGED <<horizon, budget, config, clients, wire, remote, etl>>
    /\ UNCHANGED <<now, history, client_vars, result, start_arg, total_items,
                   prev, sessions, gets>>

\* mutant: a page the executor failed on is asked for again by the loop
PageReturn_retry_page ==
    /\ pc = "ret"
    /\ kind = "page"
    /\ IF ~Truthy(result)
       THEN /\ state' = "PAGING"
            /\ BeginExecute("page")
            /\ UNCHANGED <<limiter_vars, returned, all_items, current_start>>
       ELSE IF ~result.json_ok
       THEN /\ Finish("ABORTED", all_items)
            /\ UNCHANGED <<all_items, current_start>>
       ELSE IF result.results = <<>>
       THEN /\ Finish("DONE", all_items)
            /\ UNCHANGED <<all_items, current_start>>
       ELSE /\ all_items' = all_items \o result.results
            /\ current_start' = current_start + BATCH_SIZE
            /\ IF more_pages(current_start', total_items)
               THEN /\ state' = "PAGING"
                    /\ BeginExecute("page")
                    /\ IF current_start' % (BATCH_SIZE * 5) = 0
                       THEN get_status
                       ELSE UNCHANGED limiter_vars
                    /\ UNCHANGED returned
               ELSE Finish("DONE", all_items')
    /\ UNCHANGED <<horizon, budget, config, clients, wire, remote, etl>>
    /\ UNCHANGED <<now, history, client_vars, result, start_arg, total_items,
                   prev, sessions, gets>>

\* mutant: a page whose body does not decode is asked for again by the loop
PageReturn_retry_malformed ==
    /\ pc = "ret"
    /\ kind = "page"
    /\ IF ~Truthy(result)
       THEN /\ Finish("ABORTED", all_items)
            /\ UNCHANGED <<all_items, current_start>>
       ELSE IF ~result.json_ok
       THEN /\ state' = "PAGING"
            /\ BeginExecute("page")
            /\ UNCHANGED <<limiter_vars, returned, all_items, current_start>>
       ELSE IF result.results = <<>>
       THEN /\ Finish("DONE", all_items)
            /\ UNCHANGED <<all_items, current_start>>
       ELSE /\ all_items' = all_items \o result.results
            /\ current_start' = current_start + BATCH_SIZE
            /\ IF more_pages(current_start', total_items)
               THEN /\ state' = "PAGING"
                    /\ BeginExecute("page")
                    /\ IF current_start' % (BATCH_SIZE * 5) = 0
                       THEN get_status
                       ELSE UNCHANGED limiter_vars
                    /\ UNCHANGED returned
               ELSE Finish("DONE", all_items')
    /\ UNCHANGED <<horizon, budget, config, clients, wire, remote, etl>>
    /\ UNCHANGED <<now, history, client_vars, result, start_arg, total_items,
                   prev, sessions, gets>>

\* mutant: the last page is left out of the value returned at the loop's end
PageReturn_stale ==
    /\ pc = "ret"
    /\ kind = "page"
    /\ IF ~Truthy(result) \/ ~result.json_ok
       THEN /\ Finish("ABORTED", all_items)
            /\ UNCHANGED <<all_items, current_start>>
       ELSE IF result.results = <<>>
       THEN /\ Finish("DONE", all_items)
            /\ UNCHANGED <<all_items, current_start>>
       ELSE /\ all_items' = all_items \o result.results
            /\ current_start' = current_start + BATCH_SIZE
            /\ IF more_pages(current_start', total_items)
               THEN /\ state' = "PAGING"
                    /\ BeginExecute("page")
                    /\ IF current_start' % (BATCH_SIZE * 5) = 0
                       THEN get_status
                       ELSE UNCHANGED limiter_vars
                    /\ UNCHANGED returned
               ELSE Finish("DONE", all_items)
    /\ UNCHANGED <<horizon, budget, config, clients, wire, remote, etl>>
    /\ UNCHANGED <<now, history, client_vars, result, start_arg, total_items,
                   prev, sessions, gets>>

\* get_list_items lines 293-323: one page's response up to the next loop test
PageReturn ==
    /\ pc = "ret"
    /\ kind = "page"
    /\ IF ~Truthy(result) \/ ~result.json_ok
       THEN /\ Finish("ABORTED", all_items)
            /\ UNCHANGED <<all_items, current_start>>
       ELSE IF result.results = <<>>
       THEN /\ Finish("DONE", all_items)
            /\ UNCHANGED <<all_items, current_start>>
       ELSE /\ all_items' = all_items \o result.results
            /\ current_start' = current_start + BATCH_SIZE
            /\ IF more_pages(current_start', total_items)
               THEN /\ state' = "PAGING"
                    /\ BeginExecute("page")
                    /\ IF current_start' % (BATCH_SIZE * 5) = 0
                       THEN get_status
                       ELSE UNCHANGED limiter_vars
                    /\ UNCHANGED returned
               ELSE Finish("DONE", all_items')
    /\ UNCHANGED <<horizon, budget, config, clients, wire, remote, etl>>
    /\ UNCHANGED <<now, history, client_vars, result, start_arg, total_items,
                   prev, sessions, gets>>

Next ==
    \/ StartCrawl
    \/ Idle
    \/ Gate
    \/ Headers
    \/ HttpGet
    \/ Retry
    \/ ProbeReturn
    \/ PageReturn

Spec == Init /\ [][Next]_vars

-----------------------------------------------------------------------------
(* One get_list_items call with a start argument *)

OffsetInit ==
    /\ InitLimiter
    /\ InitClient
    /\ max_requests = MAX_REQUESTS_BEFORE_THROTTLE
    /\ horizon = MaxTime
    /\ budget = 1
    /\ config = DefaultConfig
    /\ clients = NoClients
    /\ wire = <<>>
    /\ remote = FailureAnswers
    /\ etl = NoEtl

OffsetNext ==
    \/ StartCrawlAt
    \/ Gate
    \/ Headers
    \/ HttpGet
    \/ Retry
    \/ ProbeReturn
    \/ PageReturn

OffsetSpec == OffsetInit /\ [][OffsetNext]_vars

-----------------------------------------------------------------------------
(* One get_list_items call followed for as long as four attempts at one page
   take, against an overloaded remote host *)

LongCrawlInit ==
    /\ InitLimiter
    /\ InitClient
    /\ max_requests = MAX_REQUESTS_BEFORE_THROTTLE
    /\ horizon = MaxLongTime
    /\ budget = 1
    /\ config = DefaultConfig
    /\ clients = NoClients
    /\ wire = <<>>
    /\ remote = OverloadAnswers
    /\ etl = NoEtl

LongCrawlNext ==
    \/ StartCrawl
    \/ Gate
    \/ Headers
    \/ HttpGet
    \/ Retry
    \/ ProbeReturn
    \/ PageReturn

LongCrawlSpec == LongCrawlInit /\ [][LongCrawlNext]_vars

-----------------------------------------------------------------------------
(* Start-up: core/config.py is imported with some environment, Config() is
   built, and SteamAPIMarket.__init__ constructs its RateLimiter *)

\* values an environment variable can give a setting, next to its default
EnvValues == {-1, 0, 1}

\* Config._validate_config: TRUE when it returns, FALSE when it raises
validate_config(c) ==
    IF c.app_id <= 0 THEN FALSE
    ELSE IF c.max_requests <= 0 THEN FALSE
    ELSE IF c.batch_size <= 0 THEN FALSE
    ELSE TRUE

ConfigInit ==
    /\ InitLimiter
    /\ InitClient
    /\ max_requests = None
    /\ horizon = MaxTime
    /\ budget = MaxSessions
    /\ config = [status |-> "unloaded", app_id |-> None,
                 max_requests |-> None, wait_seconds |-> None,
                 batch_size |-> None]
    /\ clients = NoClients
    /\ wire = <<>>
    /\ remote = NoRemote
    /\ etl = NoEtl

\* import core.config: the module constants are read from the environment
\* and config = Config() validates them
LoadConfig ==
    /\ config.status = "unloaded"
    /\ \E a \in EnvValues \cup {STEAM_APP_ID},
          m \in EnvValues \cup {MAX_REQUESTS_BEFORE_THROTTLE},
          w \in EnvValues \cup {THROTTLE_WAIT_MIN_SECONDS},
          b \in EnvValues \cup {BATCH_SIZE} :
          LET c == [status |-> "loaded", app_id |-> a, max_requests |-> m,
                    wait_seconds |-> w, batch_size |-> b]
          IN  config' = IF validate_config(c)
                        THEN c
                        ELSE [c EXCEPT !.status = "raised"]
    /\ UNCHANGED <<now, limiter_vars, history, client_vars, executor_vars,
                   crawl_vars, horizon, budget, clients, wire, remote,
                   etl>>

\* SteamAPIMarket.__init__ line 43: RateLimiter() takes its values from
\* config.rate_limit_config
BuildLimiter ==
    /\ config.status = "loaded"
    /\ config' = [config EXCEPT !.status = "limiter_built"]
    /\ max_requests' = config.max_requests
    /\ UNCHANGED <<now, requests, consecutive_failures,
                   current_user_agent_index, degraded_service, last_429_time,
                   history, client_vars, executor_vars, crawl_vars, horizon,
                   budget, clients, wire, remote, etl>>

ConfigNext ==
    \/ LoadConfig
    \/ BuildLimiter

ConfigSpec == ConfigInit /\ [][ConfigNext]_vars

-----------------------------------------------------------------------------
(* session.get seen through the adapter that _create_session mounts:
   HTTPAdapter(max_retries=Retry(total=2, backoff_factor=2,
   status_forcelist=[500, 502, 503, 504], allowed_methods=[HEAD, GET,
   OPTIONS])). Inside one session.get the adapter sends the GET again after
   an answer whose status is in status_forcelist, and after a connection
   error, until a different answer comes or `total` re-sends are used up; in
   that case, raise_on_status being left at its default, session.get raises
   requests.exceptions.RetryError (ConnectionError after connection errors),
   both of them RequestException. *)

RETRY_TOTAL == 2
RETRY_BACKOFF_FACTOR == 2
status_forcelist == {500, 502, 503, 504}

\* an answer after which the adapter sends the GET again
Resend(a) == a.status_code = None \/ a.status_code \in status_forcelist

\* the answers the remote host gives to the GETs of one session.get
AdapterRuns(k) ==
    {run \in UNION {[1..n -> Answers(k)] : n \in 1..(RETRY_TOTAL + 1)} :
        /\ \A i \in 1..(Len(run) - 1) : Resend(run[i])
        /\ Resend(run[Len(run)]) => Len(run) = RETRY_TOTAL + 1}

\* what session.get hands to the executor: the answer, or an exception
adapter_result(run) ==
    IF Resend(run[Len(run)]) THEN NoResponse ELSE run[Len(run)]

\* the sleep before the first re-send is 0 in urllib3 1.x and backoff_factor
\* in urllib3 2.x; before the second it is backoff_factor * 2
FirstResendSleeps == {0, RETRY_BACKOFF_FACTOR}
adapter_sleep(n, first) ==
    IF n = 1 THEN 0
    ELSE IF n = 2 THEN first
    ELSE first + RETRY_BACKOFF_FACTOR * 2

\* the GETs of a run that were answered by the remote host
Answered(run) == SelectSeq(run, LAMBDA a : a.status_code # None)

\* lines 208-246 with the adapter of lines 57-67 inside session.get
AdapterGet ==
    /\ pc = "get"
    /\ \E elapsed \in ResponseTimes, first \in FirstResendSleeps,
          run \in AdapterRuns(kind) :
          LET resp == adapter_result(run)
              took == Len(run) * elapsed + adapter_sleep(Len(run), first)
          IN  /\ now + took <= horizon
              /\ now' = now + took
              /\ wire' = wire \o
                     [i \in 1..Len(Answered(run)) |->
                         [call |-> calls,
                          status_code |-> Answered(run)[i].status_code]]
              /\ gets' = Append(gets,
                     [kind |-> kind,
                      start |-> IF kind = "probe" THEN 0 ELSE current_start,
                      user_agent |-> current_user_agent_index,
                      response |-> resp])
              /\ record_request(now', resp.status_code = 200,
                                IF resp.status_code = None THEN None ELSE took,
                                resp.status_code)
              /\ result' = IF classify(resp) = "return" THEN resp
                           ELSE NoResponse
              /\ pc' = IF classify(resp) = "retry" THEN "retry" ELSE "ret"
    /\ UNCHANGED <<horizon, budget, config, clients, remote, etl>>
    /\ UNCHANGED <<max_requests, current_user_agent_index, client_vars, kind,
                   attempt, call_first, state, start_arg, total_items,
                   current_start, all_items, returned, prev, sessions>>

-----------------------------------------------------------------------------

(* ETLManager.insert_items on a database whose items table has the unique
   column hash_name. An item is modelled by its hash_name, the only field
   the deduplication reads. *)

ItemNames == 1..MaxItemNames

\* the lists get_list_items can return: any items in any order, the same
\* item possibly more than once (the remote decides what each page holds)
CrawlResults ==
    UNION {[1..n -> ItemNames] : n \in 0..MaxCrawlItems}

\* no two positions of the list hold the same hash_name
Distinct(items) ==
    \A i, j \in 1..Len(items) : i # j => items[i] # items[j]

\* etl.py line 26: the items whose hash_name is not in current_items
new_items(steam_items, current_items) ==
    SelectSeq(steam_items, LAMBDA item : item \notin current_items)

\* DataBase.bulk_insert_items inside get_session: the rows are written and
\* committed, or the unique constraint of Item.hash_name fails the write,
\* the session is rolled back and the exception raised again
bulk_insert_fails(items, stored) ==
    ~Distinct(items) \/ \E i \in 1..Len(items) : items[i] \in stored

EtlInit ==
    /\ InitLimiter
    /\ InitClient
    /\ max_requests = MAX_REQUESTS_BEFORE_THROTTLE
    /\ horizon = MaxTime
    /\ budget = MaxEtlCalls
    /\ config = DefaultConfig
    /\ clients = NoClients
    /\ wire = <<>>
    /\ remote = NoRemote
    /\ \E stored \in SUBSET ItemNames :
          etl = [stored |-> stored, before |-> stored, batch |-> <<>>,
                 raised |-> FALSE, n |-> None]

\* ETLManager.insert_items, etl.py lines 20-39
InsertItems ==
    /\ \E steam_items \in CrawlResults :
          LET current_items == etl.stored
              new == new_items(steam_items, current_items)
              fails == bulk_insert_fails(new, etl.stored)
          IN  etl' = [stored |-> IF fails THEN etl.stored
                                 ELSE etl.stored
                                      \cup {new[i] : i \in 1..Len(new)},
                      before |-> etl.stored,
                      batch |-> new,
                      raised |-> fails,
                      n |-> IF fails THEN None ELSE Len(new)]
    /\ Called("insert_items", etl'.n)
    /\ UNCHANGED <<now, limiter_vars, history, executor_vars, crawl_vars,
                   horizon, budget, config, clients, wire, remote>>

EtlNext == InsertItems

EtlSpec == EtlInit /\ [][EtlNext]_vars

-----------------------------------------------------------------------------
(* SteamAPIMarket.get_price_overview: one self.session.get on the session that
   _create_session built, so through the same adapter, and no use of the
   RateLimiter *)

PriceStatuses == {200, 429, 503, 404}
PriceBodies == {"undecodable", "success_true", "success_false", "no_success"}

\* what the remote host, or the network (status None), answers to one GET
PriceAnswers ==
    {[status_code |-> s, body |-> b] : s \in PriceStatuses, b \in PriceBodies}
    \cup {[status_code |-> None, body |-> "undecodable"]}

\* the answers the remote host gives to the GETs of one session.get: the
\* adapter sends again after each but the last
PriceRuns ==
    {run \in UNION {[1..n -> PriceAnswers] : n \in 1..(RETRY_TOTAL + 1)} :
        /\ \A i \in 1..(Len(run) - 1) :
              Resend(run[i]) /\ run[i].body = "undecodable"
        /\ Resend(run[Len(run)]) => Len(run) = RETRY_TOTAL + 1}

\* lines 105-116: an exception of session.get propagates; a body that does
\* not decode and a body without a true success field raise ValueError;
\* anything else is returned. The status code is not looked at.
price_overview_raises(run) ==
    LET resp == run[Len(run)]
    IN  \/ Resend(resp)
        \/ resp.body # "success_true"

PriceInit ==
    /\ InitLimiter
    /\ InitClient
    /\ max_requests = MAX_REQUESTS_BEFORE_THROTTLE
    /\ horizon = MaxTime
    /\ budget = MaxPriceCalls
    /\ config = DefaultConfig
    /\ clients = NoClients
    /\ wire = <<>>
    /\ remote = NoRemote
    /\ etl = NoEtl

\* get_price_overview, lines 92-116
GetPriceOverview ==
    /\ \E elapsed \in ResponseTimes, first \in FirstResendSleeps,
          run \in PriceRuns :
          LET took == Len(run) * elapsed + adapter_sleep(Len(run), first)
              raises == price_overview_raises(run)
          IN  /\ now + took <= horizon
              /\ now' = now + took
              /\ wire' = wire \o
                     [i \in 1..Len(Answered(run)) |->
                         [call |-> calls + 1,
                          status_code |-> Answered(run)[i].status_code]]
              /\ Called("get_price_overview",
                        [run |-> run, raised |-> raises,
                         data |-> IF raises THEN None
                                  ELSE run[Len(run)]])
    /\ UNCHANGED <<limiter_vars, history, executor_vars, crawl_vars, horizon,
                   budget, config, clients, remote, etl>>

PriceNext == GetPriceOverview

PriceSpec == PriceInit /\ [][PriceNext]_vars

-----------------------------------------------------------------------------

(* Two SteamAPIMarket clients in two threads of one process. Each __init__
   constructs its own RateLimiter, whose attributes are all set on self; the
   methods are the ones above, applied to the instance of the caller. A
   thread inside time.sleep does nothing until the clock has reached its
   wake time, while the other thread runs on. *)

Clients == {1, 2}

\* RateLimiter.__init__: the attributes of a new instance; wake is the clock
\* reading its thread sleeps until (None: the thread is not asleep)
NewLimiter ==
    [requests |-> <<>>, consecutive_failures |-> 0,
     current_user_agent_index |-> 0, degraded_service |-> FALSE,
     last_429_time |-> None, history |-> <<>>, wake |-> None]

\* RateLimiter.record_request on the instance l
instance_record_request(l, t, success, response_time, status_code) ==
    LET record == RequestRecord(t, success, response_time, status_code)
        appended == [l EXCEPT !.requests = Append(@, record),
                              !.history = Append(@, record)]
    IN  IF success
        THEN [appended EXCEPT !.consecutive_failures = 0,
                              !.degraded_service = FALSE]
        ELSE [appended EXCEPT
                 !.consecutive_failures = @ + 1,
                 !.last_429_time = IF status_code = 429 THEN t ELSE @]

\* RateLimiter.wait_if_needed on the instance l, up to time.sleep
instance_wait_enter(l, t, jdraw, bdraw) ==
    LET cleaned == clean_old_requests(l.requests, t)
        w == wait_time(l.requests, l.consecutive_failures, l.last_429_time,
                       t, jdraw, bdraw)
    IN  IF Len(cleaned) >= max_requests
        THEN [l EXCEPT !.requests = cleaned,
                       !.degraded_service =
                           IF l.consecutive_failures >= DEGRADED_THRESHOLD
                           THEN TRUE ELSE @,
                       !.wake = IF w > 0 THEN t + w ELSE None]
        ELSE [l EXCEPT !.requests = cleaned]

\* RateLimiter.wait_if_needed on the instance l, after time.sleep
instance_wait_wake(l, t) ==
    [l EXCEPT !.requests = clean_old_requests(@, t), !.wake = None]

\* what the executor records: a 200, a 429, a 503
ClientOutcomes == {<<TRUE, 200>>, <<FALSE, 429>>, <<FALSE, 503>>}

TwoClientInit ==
    /\ InitLimiter
    /\ InitClient
    /\ max_requests = MAX_REQUESTS_BEFORE_THROTTLE
    /\ horizon = MaxClientTime
    /\ budget = MaxCalls
    /\ config = DefaultConfig
    /\ clients = [c \in Clients |-> NewLimiter]
    /\ wire = <<>>
    /\ remote = NoRemote
    /\ etl = NoEtl

\* a step of the thread of client c: the method it ran, and what is left alone
ClientStep(c, name) ==
    /\ Called(name, c)
    /\ UNCHANGED <<limiter_vars, history, executor_vars, crawl_vars, horizon,
                   budget, config, wire, remote, etl>>

\* mutant: the ledger is a class attribute, one list for every instance
ClientRecordRequest_shared ==
    \E c \in Clients, outcome \in ClientOutcomes :
        /\ clients[c].wake = None
        /\ clients' =
              [d \in Clients |->
                  IF d = c
                  THEN instance_record_request(clients[c], now, outcome[1], 0,
                                               outcome[2])
                  ELSE [clients[d] EXCEPT
                           !.requests = Append(@,
                               RequestRecord(now, outcome[1], 0, outcome[2]))]]
        /\ ClientStep(c, "record_request")
        /\ UNCHANGED now

ClientRecordRequest ==
    \E c \in Clients, outcome \in ClientOutcomes :
        /\ clients[c].wake = None
        /\ clients' = [clients EXCEPT
                          ![c] = instance_record_request(@, now, outcome[1], 0,
                                                         outcome[2])]
        /\ ClientStep(c, "record_request")
        /\ UNCHANGED now

ClientWaitEnter ==
    \E c \in Clients, jdraw \in WaitDraws, bdraw \in BackoffDraws :
        /\ clients[c].wake = None
        /\ clients' = [clients EXCEPT
                          ![c] = instance_wait_enter(@, now, jdraw, bdraw)]
        /\ clients'[c].wake # None => clients'[c].wake <= horizon
        /\ ClientStep(c, "wait_if_needed")
        /\ UNCHANGED now

ClientWaitWake ==
    \E c \in Clients :
        /\ clients[c].wake # None
        /\ now >= clients[c].wake
        /\ clients' = [clients EXCEPT ![c] = instance_wait_wake(@, now)]
        /\ last_op' = "wake"
        /\ last_ret' = c
        /\ UNCHANGED <<now, calls, limiter_vars, history, executor_vars,
                       crawl_vars, horizon, budget, config, wire,
                       remote, etl>>

ClientGetNextUserAgent ==
    \E c \in Clients :
        /\ clients[c].wake = None
        /\ clients' = [clients EXCEPT
                          ![c].current_user_agent_index =
                              next_user_agent_index(@)]
        /\ ClientStep(c, "get_next_user_agent")
        /\ UNCHANGED now

\* the clock moves on to the wake time of a sleeping thread
ClientsTick ==
    /\ \E c \in Clients :
          /\ clients[c].wake # None
          /\ clients[c].wake > now
          /\ now' = clients[c].wake
    /\ last_op' = "tick"
    /\ last_ret' = None
    /\ UNCHANGED <<calls, limiter_vars, history, executor_vars, crawl_vars,
                   horizon, budget, config, clients, wire, remote, etl>>

TwoClientNext ==
    \/ ClientRecordRequest
    \/ ClientWaitEnter
    \/ ClientWaitWake
    \/ ClientGetNextUserAgent
    \/ ClientsTick

TwoClientSpec == TwoClientInit /\ [][TwoClientNext]_vars

-----------------------------------------------------------------------------
(* A caller of get_max_items alone: one executor call per get_max_items *)

ProbeInit ==
    /\ InitLimiter
    /\ InitClient
    /\ max_requests = MAX_REQUESTS_BEFORE_THROTTLE
    /\ horizon = MaxProbeTime
    /\ budget = MaxCalls
    /\ config = DefaultConfig
    /\ clients = NoClients
    /\ wire = <<>>
    /\ remote = FailureAnswers
    /\ etl = NoEtl

\* get_max_items is called: lines 158-168
StartProbe ==
    /\ pc = "idle"
    /\ calls < MaxProbeCalls
    /\ calls' = calls + 1
    /\ gets' = <<>>
    /\ BeginExecute("probe")
    /\ UNCHANGED <<horizon, budget, config, clients, wire, remote, etl>>
    /\ UNCHANGED <<now, limiter_vars, history, last_op, last_ret, result,
                   state, start_arg, total_items, current_start, all_items,
                   returned, prev, sessions>>

\* get_max_items returns to its caller: lines 170-181
MaxItemsReturn ==
    /\ pc = "ret"
    /\ kind = "probe"
    /\ state = "START"
    /\ last_op' = "get_max_items"
    /\ last_ret' = max_items(result)
    /\ pc' = "idle"
    /\ UNCHANGED <<horizon, budget, config, clients, wire, remote, etl>>
    /\ UNCHANGED <<now, limiter_vars, history, calls, kind, attempt, result,
                   call_first, crawl_vars>>

ProbeNext ==
    \/ StartProbe
    \/ Gate
    \/ Headers
    \/ HttpGet
    \/ Retry
    \/ MaxItemsReturn

ProbeSpec == ProbeInit /\ [][ProbeNext]_vars

\* get_max_items calls on a client whose session.get goes through the adapter
AdapterInit ==
    /\ InitLimiter
    /\ InitClient
    /\ max_requests = MAX_REQUESTS_BEFORE_THROTTLE
    /\ horizon = MaxAdapterTime
    /\ budget = MaxCalls
    /\ config = DefaultConfig
    /\ clients = NoClients
    /\ wire = <<>>
    /\ remote = FailureAnswers
    /\ etl = NoEtl

AdapterNext ==
    \/ StartProbe
    \/ Gate
    \/ Headers
    \/ AdapterGet
    \/ Retry
    \/ MaxItemsReturn

AdapterSpec == AdapterInit /\ [][AdapterNext]_vars

-----------------------------------------------------------------------------
(* What the properties below read off the state *)

\* records of h whose timestamp lies in the window that ends at t
InWindow(h, t) == {i \in 1..Len(h) : h[i].timestamp > t - window_seconds}

\* length of the run of failed records that ends h
TrailingFailures(h) ==
    LET runs == {k \in 0..Len(h) :
                    \A i \in (Len(h) - k + 1)..Len(h) : ~h[i].success}
    IN  CHOOSE k \in runs : \A j \in runs : j <= k

\* records appended by the executor call in progress (or the last one)
CallRecords == SubSeq(history, call_first + 1, Len(history))

IsPage(g) == g.kind = "page"
PageGets == SelectSeq(gets, IsPage)
IsProbe(g) == g.kind = "probe"
ProbeGets == SelectSeq(gets, IsProbe)

Transient(status_code) ==
    status_code \in {429, 500, 502, 503, 504, None}
Terminal(status_code) == status_code # 200 /\ ~Transient(status_code)

ExecutorReturned == pc \in {"ret", "idle"}
CrawlReturned == pc = "idle" /\ sessions >= 1

\* C1: when wait_if_needed has returned and the GET is about to be issued,
\* fewer than max_requests recorded requests lie in the trailing window.
C1_GateAdmits ==
    pc \in {"headers", "get"} =>
        Cardinality(InWindow(history, now)) < max_requests

\* C2: can_make_request returns false exactly when max_requests or more
\* records are still inside the window, and returns true with an empty ledger
\* once more than window_seconds have passed since the last record.
C2_CanMakeRequest ==
    last_op = "can_make_request" =>
        /\ (last_ret = FALSE) <=>
               (Cardinality(InWindow(history, now)) >= max_requests)
        /\ (/\ history # <<>>
            /\ now - history[Len(history)].timestamp > window_seconds)
               => (last_ret = TRUE /\ requests = <<>>)

C2_Witness ==
    /\ last_op = "can_make_request"
    /\ last_ret = TRUE
    /\ Len(history) >= max_requests
    /\ now - history[Len(history)].timestamp > window_seconds

\* C3: consecutive_failures is the length of the run of failed records since
\* the last successful one, whatever calls were made on the limiter.
C3_FailureStreak == consecutive_failures = TrailingFailures(history)

C3_Witness ==
    /\ Len(history) = 3
    /\ history[1].success
    /\ consecutive_failures = 2
    /\ last_op \in {"wait_if_needed", "can_make_request", "get_status",
                    "_calculate_backoff", "get_next_user_agent"}

StatusOf(g) == g.response.status_code
LastGet == gets[Len(gets)]
AllBefore(n, status_code) == \A i \in 1..(n - 1) : StatusOf(gets[i]) = status_code

C5_BoundedRetries ==
    /\ Len(gets) <= max_retries + 1
    /\ Len(CallRecords) = Len(gets)
    /\ (ExecutorReturned /\ gets # <<>> /\ Transient(StatusOf(LastGet))) =>
          /\ result = NoResponse
          /\ attempt = max_retries + 1
          /\ Len(gets) = max_retries + 1
          /\ \A i \in 1..Len(gets) : Transient(StatusOf(gets[i]))

C5_Witness ==
    /\ pc = "ret"
    /\ result = NoResponse
    /\ Len(gets) = max_retries + 1
    /\ StatusOf(gets[1]) = None
    /\ StatusOf(LastGet) = 503

\* C6: a status that is neither 200, 429 nor 500/502/503/504 ends the call at
\* once: one failed record with that status, Failure returned, no sleep and no
\* further attempt, whatever is left of the retry budget.
C6_TerminalStatus ==
    \A i \in 1..Len(gets) :
        Terminal(StatusOf(gets[i])) =>
            /\ i = Len(gets)
            /\ ExecutorReturned
            /\ result = NoResponse
            /\ attempt = Len(gets) - 1
            /\ Len(CallRecords) = Len(gets)
            /\ ~CallRecords[i].success
            /\ CallRecords[i].status_code = StatusOf(gets[i])
            /\ pc = "ret" => now = CallRecords[i].timestamp

C6_Witness ==
    /\ pc = "ret"
    /\ Len(gets) = 2
    /\ StatusOf(LastGet) = 404
    /\ attempt = 1
    /\ attempt < max_retries

RECURSIVE Concat(_)
\* the result lists of a sequence of GETs, one after the other
Concat(gs) ==
    IF gs = <<>> THEN <<>>
    ELSE gs[1].response.results \o Concat(Tail(gs))

\* a page GET answered 200 with a decodable body
PageServed(g) ==
    IsPage(g) /\ g.response.status_code = 200 /\ g.response.json_ok
ServedPages == SelectSeq(gets, PageServed)

\* every page GET so far was answered 200 with a non-empty result list
AllPagesFull ==
    \A i \in 1..Len(PageGets) :
        PageServed(PageGets[i]) /\ PageGets[i].response.results # <<>>

\* the probe's last answer was not a 200 with a decodable body
ProbeFailed ==
    /\ ProbeGets # <<>>
    /\ LET last == ProbeGets[Len(ProbeGets)].response
       IN  last.status_code # 200 \/ ~last.json_ok

\* C7: a crawl from offset 0 over total_count T > 0 whose page requests all
\* succeed with non-empty results requests the offsets 0, P, 2P, ... below T,
\* in that order, and returns without a request at an offset >= T.
C7_PageOffsets ==
    (start_arg = 0 /\ total_items > 0 /\ AllPagesFull) =>
        /\ \A i \in 1..Len(PageGets) :
              /\ PageGets[i].start = (i - 1) * BATCH_SIZE
              /\ PageGets[i].start < total_items
        /\ CrawlReturned =>
              /\ state = "DONE"
              /\ Len(PageGets) * BATCH_SIZE >= total_items

C7_Witness ==
    /\ CrawlReturned
    /\ state = "DONE"
    /\ total_items = BATCH_SIZE * MaxPages - 5
    /\ AllPagesFull
    /\ Len(PageGets) = MaxPages
    /\ Len(gets) = MaxPages + 1

\* C8: when the total-count probe fails, get_list_items returns an empty list
\* from the ABORTED state and no page request is ever issued.
C8_ProbeFailure ==
    ProbeFailed =>
        /\ PageGets = <<>>
        /\ CrawlReturned => (returned = <<>> /\ state = "ABORTED")

C8_Witness ==
    /\ CrawlReturned
    /\ sessions = 1
    /\ ProbeFailed
    /\ Len(gets) = 2
    /\ state = "ABORTED"
    /\ returned = <<>>

\* C9: when the executor fails for a page, get_list_items returns the items of
\* the pages fetched before it, in fetch order, none lost and none added.
C9_PartialResult ==
    (CrawlReturned /\ PageGets # <<>> /\ StatusOf(LastGet) # 200) =>
        /\ state = "ABORTED"
        /\ returned = Concat(ServedPages)
        /\ returned = all_items

C9_Witness ==
    /\ CrawlReturned
    /\ state = "ABORTED"
    /\ Len(PageGets) = 3
    /\ StatusOf(LastGet) = 404
    /\ Len(returned) >= 3

-----------------------------------------------------------------------------
(* C11: the offsets of the requests of one session *)

\* C11 as stated: within one session consecutive page requests are
\* BATCH_SIZE apart, and no two requests to the listing endpoint (the probe
\* of get_max_items and the pages of get_list_items share its URL) carry the
\* same offset.
C11_NoRepeatedOffset ==
    /\ \A i \in 1..(Len(PageGets) - 1) :
          PageGets[i + 1].start = PageGets[i].start + BATCH_SIZE
    /\ \A i, j \in 1..Len(gets) : i < j => gets[i].start # gets[j].start

\* C11: within one session the page offsets never decrease and move in
\* steps of BATCH_SIZE; the request after a served page is exactly
\* BATCH_SIZE further, an offset whose page was served is never requested as
\* a page again, and an offset is repeated only by the retry of a page
\* request that was not served; every probe request carries offset 0.
C11_CursorAdvances ==
    /\ \A i \in 1..(Len(PageGets) - 1) :
          IF PageGets[i].response.status_code = 200
          THEN PageGets[i + 1].start = PageGets[i].start + BATCH_SIZE
          ELSE /\ PageGets[i + 1].start = PageGets[i].start
               /\ classify(PageGets[i].response) = "retry"
    /\ \A i, j \in 1..Len(PageGets) :
          (i < j /\ PageServed(PageGets[i]))
              => PageGets[j].start > PageGets[i].start
    /\ \A i \in 1..Len(ProbeGets) : ProbeGets[i].start = 0

\* a page request was retried at its offset and the next page was requested
C11_Witness ==
    /\ Len(PageGets) >= 3
    /\ PageGets[2].start = PageGets[1].start
    /\ PageGets[3].start = PageGets[2].start + BATCH_SIZE

-----------------------------------------------------------------------------
(* C12: an empty page *)

\* a page GET answered 200 with a decodable body and no results
EmptyPage(g) == PageServed(g) /\ g.response.results = <<>>

\* C12: a page answered 200 with an empty result list is the last request
\* of its session, whatever the cursor and the total are: the executor has
\* returned it, and once get_list_items has returned, the crawl is DONE and
\* the value returned is the items of the pages served before.
C12_EmptyPageEnds ==
    \A i \in 1..Len(gets) :
        EmptyPage(gets[i]) =>
            /\ i = Len(gets)
            /\ pc \in {"ret", "idle"}
            /\ pc = "idle" =>
                  /\ state = "DONE"
                  /\ returned = Concat(ServedPages)

\* a crawl returned DONE on an empty page with the cursor below the total
\* and items already gathered
C12_Witness ==
    /\ CrawlReturned
    /\ state = "DONE"
    /\ gets # <<>>
    /\ EmptyPage(LastGet)
    /\ current_start < total_items
    /\ returned # <<>>

-----------------------------------------------------------------------------
(* C13, C14, C15: the value of _calculate_backoff *)

BackoffCalled == last_op = "_calculate_backoff"
\* the arguments and the value of the last _calculate_backoff call
BackoffAttempt == last_ret[1]
BackoffDraw == last_ret[2]
BackoffValue == last_ret[3]
\* a 429 was recorded less than RECENT_429_SECONDS ago
Recent429 ==
    last_429_time # None /\ now - last_429_time < RECENT_429_SECONDS

\* C13: whatever the attempt number (1 and up), the jitter draw and
\* last_429_time are, the value _calculate_backoff returns is at least
\* backoff_base and at most 900 seconds.
C13_BackoffBounds ==
    BackoffCalled =>
        /\ BackoffValue >= backoff_base
        /\ BackoffValue <= BACKOFF_CAP_SECONDS

\* a backoff that the clamp cut down to 900 seconds
C13_Witness ==
    /\ BackoffCalled
    /\ BackoffAttempt = MaxAttempt
    /\ BackoffValue = BACKOFF_CAP_SECONDS
    /\ backoff_base * (2 ^ (BackoffAttempt - 1)) > BACKOFF_CAP_SECONDS

BackoffValueUnset == calculate_backoff(BackoffAttempt, BackoffDraw, None, now)

\* C15 as stated: for every attempt number, _calculate_backoff less than
\* 300 seconds after a recorded 429 is strictly larger than the same call,
\* same draw, with last_429_time unset.
C15_StrictlyLarger ==
    (BackoffCalled /\ Recent429) => BackoffValue > BackoffValueUnset

\* C15: less than 300 seconds after a recorded 429 the value is never
\* smaller than with last_429_time unset; it is strictly larger whenever the
\* value with last_429_time unset is below the 900-second clamp, and both
\* are 900 otherwise.
C15_LargerBelowClamp ==
    (BackoffCalled /\ Recent429) =>
        /\ BackoffValue >= BackoffValueUnset
        /\ BackoffValueUnset < BACKOFF_CAP_SECONDS
              => BackoffValue > BackoffValueUnset
        /\ BackoffValueUnset = BACKOFF_CAP_SECONDS
              => BackoffValue = BACKOFF_CAP_SECONDS

\* a backoff computed 299 seconds after a 429, twice the value without it
C15_Witness ==
    /\ BackoffCalled
    /\ Recent429
    /\ now - last_429_time = RECENT_429_SECONDS - 1
    /\ BackoffValue = 2 * BackoffValueUnset

-----------------------------------------------------------------------------
(* C16: the ledger at an admission decision *)

\* the records ever appended whose timestamp lies after t - window_seconds
YoungerThanWindow(t) ==
    LET Young(req) == req.timestamp > t - window_seconds
    IN  SelectSeq(history, Young)

\* C16: when can_make_request or wait_if_needed returns, the ledger is
\* exactly the records appended so far with timestamp > now - window_seconds
\* (a record aged window_seconds exactly is gone, no younger one is);
\* wait_if_needed slept exactly when that many records, counted the same
\* way at its entry, filled the window.
C16_PrunedAtDecision ==
    /\ last_op \in {"can_make_request", "wait_if_needed"} =>
          requests = YoungerThanWindow(now)
    /\ last_op = "can_make_request" =>
          (last_ret <=> Len(YoungerThanWindow(now)) < max_requests)
    /\ last_op = "wait_if_needed" =>
          (last_ret > 0 <=>
              Len(YoungerThanWindow(now - last_ret)) >= max_requests)

\* wait_if_needed slept until a record was exactly window_seconds old and
\* dropped it, keeping a younger one
C16_Witness ==
    /\ last_op = "wait_if_needed"
    /\ last_ret > 0
    /\ \E i \in 1..Len(history) :
          history[i].timestamp = now - window_seconds
    /\ requests # <<>>
    /\ Len(requests) < Len(history)

-----------------------------------------------------------------------------
(* C17: the gate only delays *)

\* the longest wait_if_needed can sleep from the present state
LongestWait ==
    CHOOSE w \in 0..BACKOFF_CAP_SECONDS * 2 :
        /\ \E jdraw \in WaitDraws, bdraw \in BackoffDraws :
              w = Min(wait_time(requests, consecutive_failures, last_429_time,
                                now, jdraw, bdraw), BACKOFF_CAP_SECONDS * 2)
        /\ \A jdraw \in WaitDraws, bdraw \in BackoffDraws :
              wait_time(requests, consecutive_failures, last_429_time,
                        now, jdraw, bdraw) <= w

\* C17: wait_if_needed only delays. From the gate the executor always goes
\* on to the headers and from there to its GET, in the same attempt, with no
\* result set and no record appended; the sleep is never negative and never
\* longer than 900 seconds; and the executor returns only from a GET or from
\* the retry step that follows a failed GET.
C17_GateOnlyDelays ==
    [][/\ pc = "gate" =>
             /\ LongestWait <= BACKOFF_CAP_SECONDS
             /\ pc' = "headers"
             /\ now' >= now
             /\ now' - now <= LongestWait
             /\ UNCHANGED <<attempt, result, kind, history, gets>>
       /\ pc = "headers" =>
             /\ pc' = "get"
             /\ UNCHANGED <<now, attempt, result, kind, history, gets>>
       /\ (pc' = "ret" /\ pc # "ret") =>
             /\ pc \in {"get", "retry"}
             /\ Len(history') > call_first]_vars

\* the first GET of a call was issued and recorded after its gate slept for
\* at least 0.7 * window_seconds
C17_Witness ==
    /\ pc \in {"ret", "retry"}
    /\ calls > 1
    /\ attempt = 0
    /\ Len(history) >= 2
    /\ history[Len(history)].timestamp - history[Len(history) - 1].timestamp
           >= window_seconds - JitterOf(window_seconds, 1)

-----------------------------------------------------------------------------
(* C18: the crawl terminates *)

\* ceil(a / b), and 0 when a is not positive
CeilDiv(a, b) == IF a <= 0 THEN 0 ELSE (a + b - 1) \div b

\* what is left of a get_list_items call, most significant first: the phase,
\* the pages still to fetch, the attempts left to the executor call, and the
\* steps left to the attempt
Rank ==
    <<CASE state = "FETCHING_TOTAL" -> 2
        [] state = "PAGING" -> 1
        [] OTHER -> 0,
      IF state = "PAGING"
      THEN CeilDiv(total_items - current_start, BATCH_SIZE) ELSE 0,
      (max_retries + 1) - attempt,
      CASE pc = "gate" -> 3
        [] pc = "headers" -> 2
        [] pc = "get" -> 1
        [] OTHER -> 0>>

\* lexicographic order on tuples of four numbers
LexLess(a, b) ==
    \E k \in 1..4 : a[k] < b[k] /\ \A j \in 1..(k - 1) : a[j] = b[j]

\* the offsets of the page fetches made so far
PageOffsets == {PageGets[i].start : i \in 1..Len(PageGets)}
GetsAt(offset) == {i \in 1..Len(PageGets) : PageGets[i].start = offset}

-----------------------------------------------------------------------------
(* C19: what record_request changes *)

\* the step is a call of record_request
RecordStep == calls' # calls /\ last_op' = "record_request"
\* the record that step appended
Recorded == requests'[Len(requests')]

\* record_request appended one record, stamped with the present time, to
\* the ledger as it was
AppendsOne ==
    /\ Len(requests') = Len(requests) + 1
    /\ SubSeq(requests', 1, Len(requests)) = requests
    /\ Recorded.timestamp = now

-----------------------------------------------------------------------------
(* C21: no retry of a page by the controller *)

\* the i-th GET of the session is the one the executor gave up on: a terminal
\* status, or the last allowed attempt at its offset with a transient outcome
GaveUpAt(i) ==
    \/ Terminal(StatusOf(gets[i]))
    \/ /\ Transient(StatusOf(gets[i]))
       /\ Cardinality({j \in 1..i : /\ gets[j].kind = gets[i].kind
                                    /\ gets[j].start = gets[i].start})
              = max_retries + 1

\* C21: when the executor has given up on a page, that GET is the last of the
\* session: get_list_items asks neither for that offset again nor for a later
\* one, and it returns from ABORTED.
C21_NoControllerRetry ==
    /\ \A i \in 1..Len(gets) :
          (IsPage(gets[i]) /\ GaveUpAt(i)) =>
              /\ i = Len(gets)
              /\ pc \in {"retry", "ret", "idle"}
              /\ pc = "idle" => state = "ABORTED"
    /\ (pc = "ret" /\ kind = "page" /\ ~Truthy(result)) =>
          (gets # <<>> /\ IsPage(LastGet) /\ GaveUpAt(Len(gets)))

\* a crawl returned from ABORTED after max_retries + 1 attempts at one page,
\* all of them transient failures
C21_Witness ==
    /\ CrawlReturned
    /\ state = "ABORTED"
    /\ total_items > 0
    /\ Len(PageGets) = max_retries + 1
    /\ \A i \in 1..Len(PageGets) : Transient(StatusOf(PageGets[i]))

-----------------------------------------------------------------------------
(* C22: a 200 whose body is not JSON *)

\* a GET answered 200 with a body that does not decode
Malformed(g) == g.response.status_code = 200 /\ ~g.response.json_ok

\* C22: a 200 whose body is not valid JSON is asked for once and ends the
\* session: no GET follows it; after a malformed page get_list_items returns
\* the items of the pages served before, after a malformed probe it returns
\* the empty list without a page request.
C22_MalformedBody ==
    \A i \in 1..Len(gets) :
        Malformed(gets[i]) =>
            /\ i = Len(gets)
            /\ pc \in {"ret", "idle"}
            /\ IsProbe(gets[i]) => PageGets = <<>>
            /\ pc = "idle" =>
                  /\ state = "ABORTED"
                  /\ returned = Concat(ServedPages)
                  /\ IsProbe(gets[i]) => returned = <<>>

\* a crawl stopped on a malformed page and returned the items gathered
C22_Witness ==
    /\ CrawlReturned
    /\ gets # <<>>
    /\ IsPage(LastGet)
    /\ Malformed(LastGet)
    /\ returned # <<>>
    /\ current_start < total_items

-----------------------------------------------------------------------------
(* C23: configuration errors at start-up *)

\* C23: a configuration whose window size, batch size or app id is not
\* positive makes Config() raise: it never gets as far as a Config that was
\* built, nor as far as a RateLimiter.
C23_FailsFast ==
    config.status \in {"loaded", "limiter_built"} =>
        /\ config.wait_seconds > 0
        /\ config.batch_size > 0
        /\ config.app_id > 0

-----------------------------------------------------------------------------
(* C24: the User-Agent rotation *)

\* the positions in config.user_agents
Pool == 0..(NUM_USER_AGENTS - 1)

\* C24: the rotation index stays inside the pool; each attempt's headers carry
\* the User-Agent one position after the one of the attempt before, modulo
\* the pool size; and any NUM_USER_AGENTS attempts in a row use every
\* User-Agent of the pool, each once.
C24_Rotation ==
    /\ current_user_agent_index \in Pool
    /\ \A i \in 1..Len(gets) : gets[i].user_agent \in Pool
    /\ \A i \in 1..(Len(gets) - 1) :
          gets[i + 1].user_agent = (gets[i].user_agent + 1) % NUM_USER_AGENTS
    /\ \A i \in 1..(Len(gets) - NUM_USER_AGENTS + 1) :
          {gets[j].user_agent : j \in i..(i + NUM_USER_AGENTS - 1)} = Pool

\* more attempts than the pool has User-Agents: the rotation wrapped around
C24_Witness ==
    /\ Len(gets) > NUM_USER_AGENTS
    /\ gets[NUM_USER_AGENTS].user_agent = 0
    /\ gets[NUM_USER_AGENTS + 1].user_agent = gets[1].user_agent

-----------------------------------------------------------------------------
(* C25: two clients, each with its own RateLimiter *)

\* the attributes of a limiter that its documentation calls the ledger
Ledger(l) ==
    <<l.requests, l.consecutive_failures, l.degraded_service,
      l.last_429_time, l.current_user_agent_index>>

\* the clock reading of the last 429 the instance recorded, None when none
Last429(h) ==
    LET at == {i \in 1..Len(h) : ~h[i].success /\ h[i].status_code = 429}
    IN  IF at = {} THEN None
        ELSE h[CHOOSE i \in at : \A j \in at : j <= i].timestamp

\* what holds of a limiter used by one session alone, in terms of the
\* records that session itself has made
SingleSessionInv(l) ==
    /\ l.consecutive_failures = TrailingFailures(l.history)
    /\ l.last_429_time = Last429(l.history)
    /\ l.current_user_agent_index \in Pool
    /\ Len(l.requests) <= Len(l.history)
    /\ l.requests = SubSeq(l.history, Len(l.history) - Len(l.requests) + 1,
                           Len(l.history))
    /\ \A i \in 1..Len(l.history) :
          l.history[i].timestamp > now - window_seconds
              => \E j \in 1..Len(l.requests) : l.requests[j] = l.history[i]
    /\ l.degraded_service => l.consecutive_failures >= DEGRADED_THRESHOLD

\* the step just taken was a method run by the thread of client c
StepOf(c) ==
    /\ last_op' \in {"record_request", "wait_if_needed", "wake",
                     "get_next_user_agent"}
    /\ last_ret' = c
    /\ (calls' # calls \/ clients'[c] # clients[c])

\* C25: under every interleaving of the two clients' calls, a step of one
\* client leaves the ledger of the other as it was, the passing of time
\* changes no ledger, and each ledger keeps the invariants of a limiter used
\* by one session alone.
C25_NoInterference ==
    [][ /\ \A c \in Clients : StepOf(c) =>
              \A d \in Clients \ {c} : Ledger(clients'[d]) = Ledger(clients[d])
        /\ now' # now => \A c \in Clients :
              Ledger(clients'[c]) = Ledger(clients[c])
        /\ \A c \in Clients : SingleSessionInv(clients'[c]) ]_vars

\* client 2 has recorded a 429 while client 1, whose last request succeeded,
\* sleeps in its gate
C25_Witness ==
    /\ clients # NoClients
    /\ clients[1].wake # None
    /\ now < clients[1].wake
    /\ clients[1].consecutive_failures = 0
    /\ Len(clients[1].requests) = 1
    /\ last_op = "record_request"
    /\ last_ret = 2
    /\ clients[2].consecutive_failures = 1
    /\ clients[2].last_429_time = now
    /\ clients[2].last_429_time > clients[1].requests[1].timestamp

-----------------------------------------------------------------------------
(* C26: the order of one attempt, and when the backoff sleep happens *)

\* the answers after which the executor tries again: 429, 5xx, and a
\* RequestException (recorded with no status)
Retryable(status) == status = None \/ Transient(status)

\* C26: each attempt of an executor call runs the gate, then refreshes the
\* headers, then sends one GET and records its outcome at the time the answer
\* came; after an attempt that failed with a retryable answer the executor
\* sleeps calculate_backoff(n), n being the number of attempts this call has
\* made, exactly when n <= max_retries; after a 200, after any other status
\* and after attempt max_retries + 1 the call returns without sleeping.
C26_AttemptOrder ==
    [][ /\ (pc = "gate" /\ pc' # pc) =>
              /\ pc' = "headers"
              /\ gets' = gets
              /\ history' = history
              /\ current_user_agent_index' = current_user_agent_index
        /\ pc = "headers" =>
              /\ pc' = "get"
              /\ current_user_agent_index' # current_user_agent_index
              /\ gets' = gets
              /\ history' = history
              /\ now' = now
        /\ pc = "get" =>
              /\ Len(gets') = Len(gets) + 1
              /\ Len(history') = Len(history) + 1
              /\ history'[Len(history')].status_code = StatusOf(LastGet')
              /\ history'[Len(history')].timestamp = now'
              /\ LastGet'.user_agent = current_user_agent_index
              /\ pc' = IF Retryable(StatusOf(LastGet')) THEN "retry" ELSE "ret"
        /\ pc = "retry" =>
              /\ gets' = gets
              /\ history' = history
              /\ Retryable(StatusOf(LastGet))
              /\ LET made == Len(CallRecords)
                 IN  IF made <= max_retries
                     THEN /\ pc' = "gate"
                          /\ \E draw \in BackoffDraws :
                                now' - now = calculate_backoff(
                                    made, draw, last_429_time, now)
                     ELSE /\ pc' = "ret"
                          /\ now' = now
        /\ pc = "ret" =>
              /\ now' = now
              /\ history' = history
              /\ gets' = gets ]_vars

\* a call that slept three backoffs, made its last allowed attempt and is
\* about to return nothing
C26_Witness ==
    /\ pc = "ret"
    /\ Len(CallRecords) = max_retries + 1
    /\ \A i \in 1..Len(CallRecords) : Retryable(CallRecords[i].status_code)
    /\ CallRecords[Len(CallRecords)].timestamp - CallRecords[1].timestamp
          >= BACKOFF_BASE_SECONDS * 7
    /\ result = NoResponse

-----------------------------------------------------------------------------
(* C27: the GETs that reach the remote host, and the records made of them *)

\* the answers the remote host gave during the executor call in progress
CallWire == SelectSeq(wire, LAMBDA w : w.call = calls)

\* C27: during one executor call the remote host has answered as many GETs
\* as the call has appended records, and every answer is recorded with its
\* status code, in the order the answers came.
C27_OneGetPerRecord ==
    pc \in {"gate", "headers", "get", "retry", "ret"} =>
        /\ Len(CallWire) = Len(SelectSeq(CallRecords,
                                LAMBDA r : r.status_code # None))
        /\ \A i \in 1..Len(CallWire) :
              CallWire[i].status_code \in status_forcelist =>
                  \E j \in 1..Len(CallRecords) :
                      CallRecords[j].status_code = CallWire[i].status_code

-----------------------------------------------------------------------------
(* C28: how long the gate sleeps *)

\* the time left, when wait_if_needed was entered at clock reading t, until
\* the oldest record of the window leaves it
Remaining(t) ==
    (OldestTimestamp(YoungerThanWindow(t)) + window_seconds) - t

\* C28: when wait_if_needed has slept, the time slept is the jittered time
\* until the oldest record leaves the window, floored at 1 second and raised
\* to the backoff of the failure streak when there is one; it is at least
\* 1 second and at least the time that was left until the oldest record
\* leaves the window.
C28_GateSleep ==
    (last_op = "wait_if_needed" /\ last_ret > 0) =>
        LET entry == now - last_ret
        IN  /\ \E jdraw \in WaitDraws, bdraw \in BackoffDraws :
                  last_ret =
                      IF consecutive_failures > 0
                      THEN Max(add_jitter_to_wait(Remaining(entry), jdraw),
                               calculate_backoff(consecutive_failures, bdraw,
                                                 last_429_time, entry))
                      ELSE add_jitter_to_wait(Remaining(entry), jdraw)
            /\ last_ret >= 1
            /\ last_ret >= Remaining(entry)

-----------------------------------------------------------------------------
(* C29: the degradation flag during a failure streak *)

-----------------------------------------------------------------------------
(* C30: the degradation flag and the failure streak *)

\* C30: in every state degraded_service implies consecutive_failures >= 3,
\* and also that the last 3 records appended are failures; right after
\* record_request has recorded a success the streak is 0 and the flag false.
C30_DegradedImpliesStreak ==
    /\ degraded_service => consecutive_failures >= DEGRADED_THRESHOLD
    /\ (history # <<>> /\ history[Len(history)].success
            /\ last_op = "record_request") =>
          (consecutive_failures = 0 /\ ~degraded_service)
    /\ degraded_service => TrailingFailures(history) >= DEGRADED_THRESHOLD

\* the flag was set during a streak of four failures
C30_Witness ==
    /\ degraded_service
    /\ consecutive_failures = DEGRADED_THRESHOLD + 1
    /\ last_op = "record_request"

-----------------------------------------------------------------------------
(* C31: the failure streak at the start of an executor call *)

InExecutor == pc \in {"gate", "headers", "get", "retry", "ret"}

\* the executor has been entered and has not yet run its first gate
CallStarts == pc = "gate" /\ attempt = 0

-----------------------------------------------------------------------------
(* C32: last_429_time is never cleared *)

\* exponential delay plus jitter, before the doubling and the clamp
RawBackoff(n, draw) ==
    backoff_base * (2 ^ (n - 1)) + JitterOf(backoff_base * (2 ^ (n - 1)), draw)

\* C32: once set, last_429_time stays set and only moves to a later clock
\* reading; after every step it is the time of the last failure recorded with
\* status 429, whatever successes were recorded since; and a backoff computed
\* less than 300 seconds after that failure is twice the undoubled value,
\* clamped to 900 seconds.
C32_Never429Cleared ==
    [][ /\ last_429_time # None =>
              (last_429_time' # None /\ last_429_time' >= last_429_time)
        /\ last_429_time' = Last429(history')
        /\ (/\ last_op' = "_calculate_backoff"
            /\ Last429(history') # None
            /\ now' - Last429(history') < RECENT_429_SECONDS) =>
              last_ret'[3] = Min(2 * RawBackoff(last_ret'[1], last_ret'[2]),
                                 BACKOFF_CAP_SECONDS) ]_vars

\* a backoff doubled 299 seconds after a 429, a success having been recorded
\* in between
C32_Witness ==
    /\ BackoffCalled
    /\ Len(history) >= 2
    /\ history[Len(history)].success
    /\ last_429_time # None
    /\ last_429_time <= history[Len(history)].timestamp
    /\ now - last_429_time = RECENT_429_SECONDS - 1
    /\ BackoffValue = 2 * BackoffValueUnset

-----------------------------------------------------------------------------
(* C33: the list get_list_items returns, for any start offset *)

\* a page GET answered 200 with a decodable body and at least one result
PageFilled(g) == PageServed(g) /\ g.response.results # <<>>
FilledPages == SelectSeq(gets, PageFilled)

\* C33: the list get_list_items returns is the result lists of the pages
\* answered 200 with results, one after the other, and those pages are the
\* ones at the offsets start, start + BATCH_SIZE, ... in that order; when
\* start >= total_count no page request is made and the list is empty.
C33_ConcatFromStart ==
    /\ \A i \in 1..Len(FilledPages) :
          FilledPages[i].start = start_arg + (i - 1) * BATCH_SIZE
    /\ CrawlReturned =>
          /\ returned = Concat(FilledPages)
          /\ Len(returned) >= Len(FilledPages)
    /\ (state # "FETCHING_TOTAL" /\ start_arg >= total_items) =>
          PageGets = <<>>
    /\ (CrawlReturned /\ start_arg >= total_items) => returned = <<>>

\* a crawl from a start above 0 returned the items of two pages
C33_Witness ==
    /\ CrawlReturned
    /\ start_arg > 0
    /\ Len(FilledPages) = 2
    /\ FilledPages[2].start > FilledPages[1].start
    /\ returned = FilledPages[1].response.results
                      \o FilledPages[2].response.results

\* a crawl whose start is the listing's total made the probe request only
C33_WitnessPastEnd ==
    /\ CrawlReturned
    /\ total_items > 0
    /\ start_arg = total_items
    /\ Len(gets) = 1
    /\ returned = <<>>

-----------------------------------------------------------------------------
(* C34: what insert_items hands to storage *)

InsertCalled == last_op = "insert_items"

\* C34: the batch insert_items hands to bulk_insert_items holds no item whose
\* hash_name was stored before the call and no two items with the same
\* hash_name, whatever list the crawl returned; the call returns the number
\* of items handed over.
C34_BatchDeduplicated ==
    InsertCalled =>
        /\ \A i \in 1..Len(etl.batch) : etl.batch[i] \notin etl.before
        /\ Distinct(etl.batch)
        /\ ~etl.raised
        /\ etl.n = Len(etl.batch)

-----------------------------------------------------------------------------
(* C35: the price-overview call *)

PriceCalled == last_op = "get_price_overview"

\* a response that is not a 200, or whose JSON has no true success field
PriceError(a) ==
    a.status_code # None /\ (a.status_code # 200 \/ a.body # "success_true")

\* C35: when the remote host answers a price-overview request with a non-200
\* response, or with JSON whose success field is false or missing,
\* get_price_overview raises, returns no data, and has sent exactly one GET.
C35_ErrorSurfacedOnce ==
    PriceCalled =>
        LET run == last_ret.run
        IN  (\E i \in 1..Len(run) : PriceError(run[i])) =>
                /\ last_ret.raised
                /\ last_ret.data = None
                /\ Len(run) = 1
                /\ Len(SelectSeq(wire, LAMBDA w : w.call = calls)) = 1

====
